---------------------------- MODULE Spec2Model ----------------------------
(***************************************************************************)
(* A model of smart_traffic_ai.py: the Lane / Intersection queues, the     *)
(* Sensor discretizer, the tabular QLearning controller and the            *)
(* Simulation.run decision loop.                                           *)
(*                                                                         *)
(* Python floats are modelled as exact rationals <<num, den>> (den > 0,    *)
(* lowest terms); object identity of a Vehicle is modelled by an id field. *)
(* The optional depart_time is a sequence: <<>> is None, <<x>> is x.       *)
(***************************************************************************)
EXTENDS Integers, Sequences, FiniteSets, TLC

VARIABLES
    lanes,          \* Intersection.lanes: direction -> deque of Vehicle
    service_rate,   \* Intersection.service_rate, a rational
    actions,        \* QLearning.actions: the list of (phase, duration) pairs
    q,              \* QLearning.q: the stored entries of the defaultdict
    eps,            \* QLearning.ε in tenths (0 .. 10)
    pc,             \* position inside Simulation.run ("idle" outside a run)
    t,              \* run: simulated time
    tt,             \* run: micro-time of the arrival loop
    s,              \* run: state observed before the arrivals (Sensor.read)
    a,              \* run: chosen action index (0-based, as in Python)
    train,          \* run: the train argument
    max_t,          \* run: the max_t argument
    departed,       \* run: list of departed vehicles
    total_r,        \* run: accumulated reward
    result,         \* the record returned by the last finished run
    nextId,         \* number of Vehicle objects created so far
    steps,          \* number of calls made so far (bounds the exploration)
    call,           \* history: the last operation called, with its arguments
    pre,            \* history: lanes as they were when the last serve was called
    left,           \* history: what the last serve / remove_vehicle returned
    qpre,           \* history: q as it was when the last update/choose was called
    qrun,           \* history: q as it was when the current run was entered
    entry,          \* history: nextId and the number queued at that entry
    added,          \* history: per direction, the vehicles added so far
    returned,       \* history: per direction, the vehicles removed so far
    hist            \* history: one record per decision step of the current run

vars == <<lanes, service_rate, actions, q, eps, pc, t, tt, s, a, train, max_t, departed,
          total_r, result, nextId, steps, call, pre, left, qpre, qrun, entry, added,
          returned, hist>>

-----------------------------------------------------------------------------
(* Bounds of the exploration *)

MaxLaneOps == 5     \* SpecLane: number of add/remove calls
MaxQueue == 5       \* SpecServe: longest initial queue of a lane
MaxDur == 3         \* SpecServe: longest duration passed to serve
MaxSensorQueue == 11 \* SpecSensor: longest queue of a lane
MaxQCalls == 2      \* SpecQ: number of update/choose calls
MaxSteps == 2       \* Spec: decision steps over all runs
MaxVehicles == 2    \* Spec: vehicles generated over all runs

-----------------------------------------------------------------------------
(* Rational arithmetic standing for Python's float arithmetic *)

Abs(x) == IF x < 0 THEN -x ELSE x

RECURSIVE GCD(_, _)
GCD(x, y) == IF y = 0 THEN x ELSE GCD(y, x % y)

Rat(n, d) ==
    LET g == GCD(Abs(n), Abs(d))
        sg == IF d < 0 THEN -1 ELSE 1
    IN  <<sg * (n \div g), sg * (d \div g)>>

RatAdd(x, y) ==
    LET g == GCD(x[2], y[2])
    IN  Rat(x[1] * (y[2] \div g) + y[1] * (x[2] \div g), (x[2] \div g) * y[2])

RatNeg(x) == <<-x[1], x[2]>>

RatSub(x, y) == RatAdd(x, RatNeg(y))

RatMul(x, y) ==
    LET g1 == GCD(Abs(x[1]), y[2])
        g2 == GCD(Abs(y[1]), x[2])
        h1 == IF g1 = 0 THEN 1 ELSE g1
        h2 == IF g2 = 0 THEN 1 ELSE g2
    IN  Rat((x[1] \div h1) * (y[1] \div h2), (x[2] \div h2) * (y[2] \div h1))

RatLess(x, y) == RatSub(x, y)[1] < 0

FromInt(n) == <<n, 1>>

Zero == <<0, 1>>

\* int(x) of a float: truncation towards zero
PyInt(x) == IF x[1] >= 0 THEN x[1] \div x[2] ELSE -((-x[1]) \div x[2])

-----------------------------------------------------------------------------
(* Vehicle and Lane *)

None == <<>>

Vehicle(id, arrival_time) ==
    [id |-> id, arrival_time |-> arrival_time, depart_time |-> None]

Lane == <<>>

add_vehicle(queue, v) == Append(queue, v)

\* LIFO variant of remove_vehicle (pop instead of popleft)
remove_vehicle_pop(queue, time) ==
    IF queue = <<>> THEN [v |-> None, queue |-> queue]
    ELSE [v |-> <<[queue[Len(queue)] EXCEPT !.depart_time = <<time>>]>>,
          queue |-> SubSeq(queue, 1, Len(queue) - 1)]

\* returns the head of the lane and leaves it queued
remove_vehicle_peek(queue, time) ==
    IF queue = <<>> THEN [v |-> None, queue |-> queue]
    ELSE [v |-> <<[Head(queue) EXCEPT !.depart_time = <<time>>]>>,
          queue |-> queue]

\* returns the popped vehicle as <<v>> (None when the lane is empty) and the
\* remaining queue
remove_vehicle(queue, time) ==
    IF queue = <<>> THEN [v |-> None, queue |-> queue]
    ELSE [v |-> <<[Head(queue) EXCEPT !.depart_time = <<time>>]>>,
          queue |-> Tail(queue)]

qlen(queue) == Len(queue)

-----------------------------------------------------------------------------
(* Intersection *)

Dirs == {"N", "S", "E", "W"}

DirOrder == <<"N", "S", "E", "W">>

EmptyLanes == [d \in Dirs |-> Lane]

queue_lengths(ls) == [d \in Dirs |-> qlen(ls[d])]

\* N and S taken as the active directions of every phase
PhaseDirsAlwaysNS(phase) == <<"N", "S">>

PhaseDirs(phase) == IF phase = "NS" THEN <<"N", "S">> ELSE <<"E", "W">>

\* max(dirs, key=qlen) that keeps the last of equal maxima
BestDirLast(ls, dirs) ==
    IF qlen(ls[dirs[2]]) >= qlen(ls[dirs[1]]) THEN dirs[2] ELSE dirs[1]

\* max(dirs, key=qlen): Python's max keeps the first of equal maxima
BestDir(ls, dirs) ==
    IF qlen(ls[dirs[2]]) > qlen(ls[dirs[1]]) THEN dirs[2] ELSE dirs[1]

\* capacity rounded up instead of truncated
ServeCapCeil(rate, dt) ==
    LET x == RatMul(rate, FromInt(dt))
    IN  IF x[1] % x[2] = 0 THEN PyInt(x) ELSE PyInt(x) + 1

ServeCap(rate, dt) == PyInt(RatMul(rate, FromInt(dt)))

RECURSIVE ServeLoop(_, _, _, _, _)
ServeLoop(ls, dirs, n, time, passed) ==
    IF n <= 0 THEN [lanes |-> ls, passed |-> passed]
    ELSE LET best == BestDir(ls, dirs)
         IN  IF qlen(ls[best]) = 0 THEN [lanes |-> ls, passed |-> passed]
             ELSE LET r == remove_vehicle(ls[best], time)
                  IN  ServeLoop([ls EXCEPT ![best] = r.queue], dirs, n - 1,
                                time, passed \o r.v)

serve(ls, rate, phase, dt, time) ==
    ServeLoop(ls, PhaseDirs(phase), ServeCap(rate, dt), time, <<>>)

-----------------------------------------------------------------------------
(* Sensor *)

bins == <<0, 3, 6, 10, 20>>

RECURSIVE DiscFrom(_, _, _)
DiscFrom(bs, i, v) ==
    IF i > Len(bs) THEN Len(bs)
    ELSE IF v <= bs[i] THEN i - 1
    ELSE DiscFrom(bs, i + 1, v)

\* strict comparison against the bin edge
disc_strict(v) ==
    LET S == {i \in 1..Len(bins) : v < bins[i]}
    IN  IF S = {} THEN Len(bins) ELSE (CHOOSE i \in S : \A j \in S : i <= j) - 1

disc(v) == DiscFrom(bins, 1, v)

\* imbalance reported from threshold 3 on
read_ge(ls) ==
    LET ql == queue_lengths(ls)
        ns == ql["N"] + ql["S"]
        ew == ql["E"] + ql["W"]
        diff == IF ns - ew >= 3 THEN 1 ELSE IF ew - ns >= 3 THEN -1 ELSE 0
    IN  <<disc(ns), disc(ew), diff>>

read(ls) ==
    LET ql == queue_lengths(ls)
        ns == ql["N"] + ql["S"]
        ew == ql["E"] + ql["W"]
        diff == IF ns - ew > 3 THEN 1 ELSE IF ew - ns > 3 THEN -1 ELSE 0
    IN  <<disc(ns), disc(ew), diff>>

-----------------------------------------------------------------------------
(* QLearning *)

\* the action list main passes to QLearning
MainActions == <<<<"NS", 5>>, <<"NS", 10>>, <<"EW", 5>>, <<"EW", 10>>>>

\* a shorter action list, one action per phase, with durations of one and of
\* three micro-steps
ShortActions == <<<<"NS", 1>>, <<"EW", 3>>>>

alpha == <<1, 10>>

gamma == <<9, 10>>

QKeys(st) == {<<st, i>> : i \in 0..(Len(actions) - 1)}

\* defaultdict(float).__getitem__: a missing key is stored with 0.0
QTouch(qt, keys) ==
    [k \in (DOMAIN qt) \cup keys |-> IF k \in DOMAIN qt THEN qt[k] ELSE Zero]

\* the value q[(st, i)] reads, stored or not
QVal(qt, st, i) == IF <<st, i>> \in DOMAIN qt THEN qt[<<st, i>>] ELSE Zero

\* the last index holding the greatest value
RECURSIVE ArgMaxLast(_, _, _, _)
ArgMaxLast(qt, st, i, best) ==
    IF i >= Len(actions) THEN best
    ELSE ArgMaxLast(qt, st, i + 1,
                    IF RatLess(QVal(qt, st, i), QVal(qt, st, best)) THEN best ELSE i)

\* max(range(n), key=...): the first index holding the greatest value
RECURSIVE ArgMaxFrom(_, _, _, _)
ArgMaxFrom(qt, st, i, best) ==
    IF i >= Len(actions) THEN best
    ELSE ArgMaxFrom(qt, st, i + 1,
                    IF RatLess(QVal(qt, st, best), QVal(qt, st, i)) THEN i ELSE best)

\* max(q[(ns, na)] for na in range(n))
MaxQ(qt, st) == QVal(qt, st, ArgMaxFrom(qt, st, 1, 0))

\* u is random.random() in tenths, rr is random.randrange(len(actions))
choose(qt, e, st, u, rr) ==
    IF u < e THEN [a |-> rr, q |-> qt]
    ELSE [a |-> ArgMaxFrom(qt, st, 1, 0), q |-> QTouch(qt, QKeys(st))]

\* the TD target without the discount factor
TDValueNoGamma(cur, r, best) ==
    RatAdd(cur, RatMul(alpha, RatSub(RatAdd(FromInt(r), best), cur)))

\* cur + α*(r + γ*best - cur)
TDValue(cur, r, best) ==
    RatAdd(cur, RatMul(alpha, RatSub(RatAdd(FromInt(r), RatMul(gamma, best)), cur)))

\* update that writes the entry of the next state
update_next(qt, st, i, r, nst) ==
    LET q1 == QTouch(qt, {<<st, i>>} \cup QKeys(nst))
    IN  [q1 EXCEPT ![<<nst, i>>] = TDValue(q1[<<st, i>>], r, MaxQ(q1, nst))]

update(qt, st, i, r, nst) ==
    LET q1 == QTouch(qt, {<<st, i>>})
        cur == q1[<<st, i>>]
        q2 == QTouch(q1, QKeys(nst))
        best == MaxQ(q2, nst)
    IN  [q2 EXCEPT ![<<st, i>>] = TDValue(cur, r, best)]

-----------------------------------------------------------------------------
(* Initial values shared by the specifications *)

EmptyQ == [k \in {} |-> Zero]

NoCall == [op |-> "none"]

NoEntry == [nextId |-> 0, queued |-> 0]

NoResult == [departed |-> 0, avg_wait |-> Zero, reward |-> 0]

EmptyLog == [d \in Dirs |-> <<>>]

ServiceRates == {<<1, 1>>, <<4, 5>>}

EpsValues == {0, 3, 10}

RandomDraws == {0, 5}

InitCtrl ==
    /\ actions = MainActions
    /\ q = EmptyQ
    /\ eps \in EpsValues
    /\ qpre = EmptyQ
    /\ qrun = EmptyQ

InitRun ==
    /\ pc = "idle"
    /\ t = 0
    /\ tt = 0
    /\ s = <<0, 0, 0>>
    /\ a = 0
    /\ train = FALSE
    /\ max_t = 0
    /\ departed = <<>>
    /\ total_r = 0
    /\ result = NoResult
    /\ hist = <<>>

InitHist ==
    /\ steps = 0
    /\ entry = NoEntry
    /\ call = NoCall
    /\ left = <<>>
    /\ added = EmptyLog
    /\ returned = EmptyLog

runVars == <<pc, t, tt, s, a, train, max_t, departed, total_r, result, hist>>

ctrlVars == <<actions, q, eps, qpre, qrun, entry>>

-----------------------------------------------------------------------------
(* SpecLane: add_vehicle / remove_vehicle calls on the lanes *)

InitLane ==
    /\ lanes = EmptyLanes
    /\ pre = EmptyLanes
    /\ service_rate = <<1, 1>>
    /\ nextId = 0
    /\ actions = MainActions /\ eps = 0 /\ q = EmptyQ /\ qpre = EmptyQ
    /\ qrun = EmptyQ
    /\ InitRun
    /\ InitHist

LaneAdd(d) ==
    /\ steps < MaxLaneOps      \* bound
    /\ LET v == Vehicle(nextId, steps)
       IN  /\ lanes' = [lanes EXCEPT ![d] = add_vehicle(lanes[d], v)]
           /\ added' = [added EXCEPT ![d] = Append(added[d], v)]
           /\ call' = [op |-> "add", d |-> d]
    /\ nextId' = nextId + 1
    /\ steps' = steps + 1
    /\ left' = <<>>
    /\ UNCHANGED <<service_rate, pre, returned, runVars, ctrlVars>>

LaneRemove(d) ==
    /\ steps < MaxLaneOps      \* bound
    /\ LET r == remove_vehicle(lanes[d], steps)
       IN  /\ lanes' = [lanes EXCEPT ![d] = r.queue]
           /\ returned' = [returned EXCEPT ![d] = returned[d] \o r.v]
           /\ left' = r.v
           /\ call' = [op |-> "remove", d |-> d, time |-> steps]
    /\ steps' = steps + 1
    /\ UNCHANGED <<service_rate, pre, added, nextId, runVars, ctrlVars>>

NextLane == \E d \in Dirs : LaneAdd(d) \/ LaneRemove(d)

SpecLane == InitLane /\ [][NextLane]_vars

-----------------------------------------------------------------------------
(* SpecServe: Intersection.serve called on arbitrary queues *)

DirIndex(d) == CHOOSE i \in 1..4 : DirOrder[i] = d

\* a lane of n vehicles in arrival order; the tail is the same vehicle
\* whatever n is, so that a served lane is again such a lane
MkLane(d, n, m) ==
    [k \in 1..n |-> Vehicle(DirIndex(d) * (m + 1) + (m - (n - k)), m - (n - k))]

InitServe ==
    /\ \E n \in [Dirs -> 0..MaxQueue] :
          lanes = [d \in Dirs |-> MkLane(d, n[d], MaxQueue)]
    /\ pre = lanes
    /\ service_rate \in ServiceRates
    /\ nextId = 0
    /\ actions = MainActions /\ eps = 0 /\ q = EmptyQ /\ qpre = EmptyQ
    /\ qrun = EmptyQ
    /\ InitRun
    /\ InitHist

ServeCall(phase, dur) ==
    LET time == MaxQueue + dur
        r == serve(lanes, service_rate, phase, dur, time)
    IN  /\ lanes' = r.lanes
        /\ left' = r.passed
        /\ pre' = lanes
        /\ call' = [op |-> "serve", phase |-> phase, dur |-> dur, time |-> time]
        /\ UNCHANGED <<service_rate, nextId, steps, added, returned, runVars,
                       ctrlVars>>

NextServe == \E phase \in {"NS", "EW"}, dur \in 1..MaxDur : ServeCall(phase, dur)

SpecServe == InitServe /\ [][NextServe]_vars

-----------------------------------------------------------------------------
(* SpecSensor: Sensor.read (and through it Sensor.disc) on arbitrary queues *)

InitSensor ==
    /\ \E n \in [Dirs -> 0..MaxSensorQueue] :
          lanes = [d \in Dirs |-> MkLane(d, n[d], MaxSensorQueue)]
    /\ pre = lanes
    /\ service_rate = <<1, 1>>
    /\ nextId = 0
    /\ actions = MainActions /\ eps = 0 /\ q = EmptyQ /\ qpre = EmptyQ
    /\ qrun = EmptyQ
    /\ InitRun
    /\ InitHist

SensorRead ==
    /\ s' = read(lanes)
    /\ pre' = lanes
    /\ call' = [op |-> "read"]
    /\ UNCHANGED <<lanes, service_rate, nextId, steps, left, added, returned,
                   pc, t, tt, a, train, max_t, departed, total_r, result, hist,
                   ctrlVars>>

NextSensor == SensorRead

SpecSensor == InitSensor /\ [][NextSensor]_vars

-----------------------------------------------------------------------------
(* SpecQ: QLearning.update and QLearning.choose called with arbitrary        *)
(* arguments                                                                 *)

QStates == {<<0, 0, 0>>, <<1, 0, 0>>}

Rewards == {-2, 0, 10}

ActionIdx == 0..(Len(actions) - 1)

InitQ ==
    /\ lanes = EmptyLanes
    /\ pre = EmptyLanes
    /\ service_rate = <<1, 1>>
    /\ nextId = 0
    /\ InitCtrl
    /\ InitRun
    /\ InitHist

QUpdateCall(st, i, r, nst) ==
    /\ steps < MaxQCalls
    /\ q' = update(q, st, i, r, nst)
    /\ qpre' = q
    /\ call' = [op |-> "update", s |-> st, a |-> i, r |-> r, ns |-> nst]
    /\ steps' = steps + 1
    /\ UNCHANGED <<lanes, service_rate, nextId, pre, left, added, returned,
                   actions, eps, qrun, entry, runVars>>

QChooseCall(st, u, rr) ==
    /\ steps < MaxQCalls
    /\ LET c == choose(q, eps, st, u, rr)
       IN  /\ a' = c.a
           /\ q' = c.q
           /\ call' = [op |-> "choose", s |-> st, explore |-> (u < eps)]
    /\ qpre' = q
    /\ steps' = steps + 1
    /\ UNCHANGED <<lanes, service_rate, nextId, pre, left, added, returned,
                   actions, eps, qrun, entry, pc, t, tt, s, train, max_t, departed,
                   total_r, result, hist>>

NextQ ==
    \/ \E st \in QStates, i \in ActionIdx, r \in Rewards, nst \in QStates :
          QUpdateCall(st, i, r, nst)
    \/ \E st \in QStates, u \in RandomDraws, rr \in ActionIdx :
          QChooseCall(st, u, rr)

SpecQ == InitQ /\ [][NextQ]_vars

-----------------------------------------------------------------------------
(* Spec: Simulation.reset and Simulation.run, one action per position of    *)
(* run's loops.  The controller has the two-action list ShortActions and    *)
(* ε = 0.3; the intersection has the default service rate 1.0; dt = 1.        *)

dt == 1

RECURSIVE SumFn(_, _)
SumFn(f, D) ==
    IF D = {} THEN 0
    ELSE LET d == CHOOSE x \in D : TRUE IN f[d] + SumFn(f, D \ {d})

\* TrafficGenerator.generate: the counts a Poisson draw per direction can
\* give (any count has positive probability), within the bound
GenerateOutcomes ==
    {c \in [Dirs -> 0..MaxVehicles] : SumFn(c, Dirs) <= MaxVehicles}

\* arrivals stamped with the micro-time that follows
RECURSIVE AddNLate(_, _, _, _)
AddNLate(queue, n, id, time) ==
    IF n <= 0 THEN queue
    ELSE AddNLate(add_vehicle(queue, Vehicle(id, time + 1)), n - 1, id + 1, time)

\* for _ in range(c): add_vehicle(d, Vehicle(tt))
RECURSIVE AddN(_, _, _, _)
AddN(queue, n, id, time) ==
    IF n <= 0 THEN queue
    ELSE AddN(add_vehicle(queue, Vehicle(id, time)), n - 1, id + 1, time)

\* for d, c in arrivals.items(): ... in the order of the rates dict
RECURSIVE AddArrivals(_, _, _, _, _)
AddArrivals(ls, c, i, id, time) ==
    IF i > Len(DirOrder) THEN ls
    ELSE LET d == DirOrder[i]
         IN  AddArrivals([ls EXCEPT ![d] = AddN(ls[d], c[d], id, time)],
                         c, i + 1, id + c[d], time)

\* reward with the coefficients exchanged
RewardSwapped(nleft, qsum) == nleft * 2 - qsum * 10

Reward(nleft, qsum) == nleft * 10 - qsum * 2

RECURSIVE SumWait(_)
SumWait(vs) ==
    IF vs = <<>> THEN 0
    ELSE (Head(vs).depart_time[1] - Head(vs).arrival_time) + SumWait(Tail(vs))

\* the sum of waits divided by one more than the number of vehicles
AvgWaitOffByOne(vs) ==
    IF vs # <<>> THEN Rat(SumWait(vs), Len(vs) + 1) ELSE Zero

AvgWait(vs) == IF vs # <<>> THEN Rat(SumWait(vs), Len(vs)) ELSE Zero

RunResult(vs, total) ==
    [departed |-> Len(vs), avg_wait |-> AvgWait(vs), reward |-> total]

\* the transition fed back whether or not the run trains
LearnAlways(qt, tr, st, i, r, nst) == update(qt, st, i, r, nst)

\* if train: ctrl.update(s, a, reward, ns)
Learn(qt, tr, st, i, r, nst) == IF tr THEN update(qt, st, i, r, nst) ELSE qt

\* the arrival loop without its increment
NextMicroStuck(now) == now

\* tt += self.dt
NextMicro(now) == now + dt

\* the loop test of run letting a step start at max_t
RunningAtLimit(now, limit) == now <= limit

\* while t < max_t
Running(now, limit) == now < limit

\* the time stamped on served vehicles taken as the start of the phase
ServeTimeStart(now, dur) == now

ServeTime(now, dur) == now + dur

Init ==
    /\ lanes = EmptyLanes
    /\ pre = EmptyLanes
    /\ service_rate = <<1, 1>>
    /\ nextId = 0
    /\ actions = ShortActions /\ q = EmptyQ /\ qpre = EmptyQ /\ eps = 3
    /\ qrun = EmptyQ
    /\ InitRun
    /\ InitHist

\* a fresh Intersection built with the default service rate
reset_default ==
    /\ pc = "idle"
    /\ lanes' = EmptyLanes
    /\ service_rate' = <<1, 1>>
    /\ added' = EmptyLog
    /\ returned' = EmptyLog
    /\ call' = [op |-> "reset"]
    /\ UNCHANGED <<nextId, steps, pre, left, runVars, ctrlVars>>

\* a fresh Intersection: new, empty Lane objects, the same service_rate
reset ==
    /\ pc = "idle"
    /\ lanes' = EmptyLanes
    /\ added' = EmptyLog
    /\ returned' = EmptyLog
    /\ call' = [op |-> "reset"]
    /\ UNCHANGED <<service_rate, nextId, steps, pre, left, runVars, ctrlVars>>

\* entry of run: t = 0; departed = []; total_r = 0.  The values left by an
\* earlier run (its locals and its result) are dead and are cleared.
RunBegin(m, tr) ==
    /\ pc = "idle"
    /\ steps + m <= MaxSteps      \* bound: a run of max_t = m takes at most m steps
    /\ pc' = "loop"
    /\ t' = 0
    /\ departed' = <<>>
    /\ total_r' = 0
    /\ max_t' = m
    /\ train' = tr
    /\ hist' = <<>>
    /\ tt' = 0
    /\ s' = <<0, 0, 0>>
    /\ a' = 0
    /\ result' = NoResult
    /\ left' = <<>>
    /\ pre' = lanes
    /\ qpre' = q
    /\ qrun' = q
    /\ entry' = [nextId |-> nextId, queued |-> SumFn(queue_lengths(lanes), Dirs)]
    /\ call' = [op |-> "run"]
    /\ UNCHANGED <<lanes, service_rate, nextId, steps, added, returned, actions,
                   q, eps>>

Decide(u, rr) ==
    /\ pc = "loop"
    /\ Running(t, max_t)
    /\ LET st == read(lanes)
           c == choose(q, eps, st, u, rr)
       IN  /\ s' = st
           /\ a' = c.a
           /\ q' = c.q
           /\ call' = [op |-> "choose", s |-> st, explore |-> (u < eps)]
    /\ qpre' = q
    /\ tt' = t
    /\ pc' = "arrive"
    /\ UNCHANGED <<lanes, service_rate, nextId, steps, pre, left, added,
                   returned, actions, eps, qrun, entry, t, train, max_t, departed,
                   total_r, result, hist>>

Arrive(c) ==
    /\ pc = "arrive"
    /\ tt < t + actions[a + 1][2]
    /\ nextId + SumFn(c, Dirs) <= MaxVehicles      \* bound
    /\ lanes' = AddArrivals(lanes, c, 1, nextId, tt)
    /\ added' = [d \in Dirs |->
                    added[d] \o SubSeq(lanes'[d], Len(lanes[d]) + 1, Len(lanes'[d]))]
    /\ nextId' = nextId + SumFn(c, Dirs)
    /\ tt' = NextMicro(tt)
    /\ call' = [op |-> "generate", time |-> tt]
    /\ UNCHANGED <<service_rate, steps, pre, left, returned, pc, t, s, a,
                   train, max_t, departed, total_r, result, hist, ctrlVars>>

Serve ==
    /\ pc = "arrive"
    /\ ~(tt < t + actions[a + 1][2])
    /\ LET phase == actions[a + 1][1]
           dur == actions[a + 1][2]
           r == serve(lanes, service_rate, phase, dur, ServeTime(t, dur))
           reward == Reward(Len(r.passed), SumFn(queue_lengths(r.lanes), Dirs))
           ns == read(r.lanes)
       IN  /\ lanes' = r.lanes
           /\ left' = r.passed
           /\ departed' = departed \o r.passed
           /\ q' = Learn(q, train, s, a, reward, ns)
           /\ total_r' = total_r + reward
           /\ t' = t + dur
           /\ hist' = Append(hist, [t |-> t, dur |-> dur, phase |-> phase,
                                    s |-> s, a |-> a, reward |-> reward,
                                    nleft |-> Len(r.passed),
                                    ns |-> ns, updated |-> train])
           /\ call' = [op |-> "serve", phase |-> phase, dur |-> dur,
                       time |-> t + dur]
    /\ pre' = lanes
    /\ qpre' = q
    /\ steps' = steps + 1
    /\ pc' = "loop"
    /\ UNCHANGED <<service_rate, nextId, added, returned, actions, eps, qrun,
                   entry, tt, s, a, train, max_t, result>>

RunEnd ==
    /\ pc = "loop"
    /\ ~Running(t, max_t)
    /\ result' = RunResult(departed, total_r)
    /\ pc' = "idle"
    /\ call' = [op |-> "return"]
    /\ UNCHANGED <<lanes, service_rate, nextId, steps, pre, left, added,
                   returned, t, tt, s, a, train, max_t, departed, total_r, hist,
                   ctrlVars>>

Next ==
    \/ reset
    \/ \E m \in 1..MaxSteps, tr \in BOOLEAN : RunBegin(m, tr)
    \/ \E u \in RandomDraws, rr \in ActionIdx : Decide(u, rr)
    \/ \E c \in GenerateOutcomes : Arrive(c)
    \/ Serve
    \/ RunEnd

Spec == Init /\ [][Next]_vars

-----------------------------------------------------------------------------
(* SpecReset: Simulation.reset called on arbitrary queues, with either     *)
(* service rate and with a Q-table that is fresh or has learned a value     *)

LearnedQ == update(EmptyQ, <<0, 0, 0>>, 0, 10, <<0, 0, 0>>)

InitReset ==
    /\ \E n \in [Dirs -> 0..MaxQueue] :
          lanes = [d \in Dirs |-> MkLane(d, n[d], MaxQueue)]
    /\ pre = lanes
    /\ service_rate \in ServiceRates
    /\ nextId = 0
    /\ actions = MainActions /\ eps = 0 /\ q \in {EmptyQ, LearnedQ}
    /\ qpre = q /\ qrun = q
    /\ InitRun
    /\ InitHist

NextReset == reset

SpecReset == InitReset /\ [][NextReset]_vars

-----------------------------------------------------------------------------
(* Properties *)

Min(x, y) == IF x <= y THEN x ELSE y

StripDepart(vs) == [i \in 1..Len(vs) |-> [vs[i] EXCEPT !.depart_time = None]]

\* C1 (SpecLane): the vehicles removed from a lane are, in order, the first
\* vehicles added to it, and the vehicles still queued are the rest, in
\* order: nothing is reordered, skipped, duplicated or lost.
C1_Fifo ==
    \A d \in Dirs : added[d] = StripDepart(returned[d]) \o lanes[d]

C1_Witness ==
    \E d \in Dirs :
        /\ call.op = "remove"
        /\ Len(returned[d]) >= 2
        /\ Len(lanes[d]) >= 1

\* floor(service_rate * dur), for the positive rates and durations of the model
FloorCap(rate, dur) == (rate[1] * dur) \div rate[2]

ActiveSum(ls, phase) ==
    Len(ls[PhaseDirs(phase)[1]]) + Len(ls[PhaseDirs(phase)[2]])

\* C2 (SpecServe): serve returns at most floor(service_rate * duration)
\* vehicles and at most as many as the two active lanes held at call time.
C2_CapacityBound ==
    call.op = "serve" =>
        /\ Len(left) <= FloorCap(service_rate, call.dur)
        /\ Len(left) <= ActiveSum(pre, call.phase)

C2_Witness ==
    /\ call.op = "serve"
    /\ service_rate = <<4, 5>>
    /\ call.dur = 3
    /\ Len(left) = 2
    /\ ActiveSum(pre, call.phase) > 2

\* the lane a served vehicle was queued in when serve was called
FromDir(v) == CHOOSE d \in Dirs : \E j \in 1..Len(pre[d]) : pre[d][j].id = v.id

\* the number of vehicles among the first i - 1 served that came from lane d
ServedBefore(d, i) == Cardinality({j \in 1..(i - 1) : FromDir(left[j]) = d})

\* C3 (SpecServe): the i-th served vehicle comes from the active lane that is
\* longest after the first i - 1 removals, the first in canonical order on a
\* tie, and is the head of that lane; serve returns min(capacity, active sum)
\* vehicles.  With N = 5, S = 1, phase NS and capacity 3 all three come from N.
C3_LongestFirst ==
    call.op = "serve" =>
        LET d1 == PhaseDirs(call.phase)[1]
            d2 == PhaseDirs(call.phase)[2]
            cap == FloorCap(service_rate, call.dur)
        IN  /\ Len(left) = Min(cap, ActiveSum(pre, call.phase))
            /\ \A i \in 1..Len(left) :
                  LET l1 == Len(pre[d1]) - ServedBefore(d1, i)
                      l2 == Len(pre[d2]) - ServedBefore(d2, i)
                      d == IF l2 > l1 THEN d2 ELSE d1
                  IN  /\ FromDir(left[i]) = d
                      /\ left[i].id = pre[d][ServedBefore(d, i) + 1].id
            /\ (/\ call.phase = "NS" /\ Len(pre["N"]) = 5 /\ Len(pre["S"]) = 1
                /\ cap = 3)
               => \A i \in 1..3 : FromDir(left[i]) = "N"

C3_Witness ==
    /\ call.op = "serve"
    /\ call.phase = "NS"
    /\ Len(pre["N"]) = 5
    /\ Len(pre["S"]) = 1
    /\ service_rate = <<1, 1>>
    /\ call.dur = 3
    /\ Len(left) = 3
    /\ \A i \in 1..3 : FromDir(left[i]) = "N"

RECURSIVE ServedUpTo(_)
\* the number of vehicles served in the first k decision steps of the run
ServedUpTo(k) == IF k = 0 THEN 0 ELSE hist[k].nleft + ServedUpTo(k - 1)

\* the decision step of the current run that served the i-th departed vehicle
StepOf(i) ==
    CHOOSE k \in 1..Len(hist) : ServedUpTo(k - 1) < i /\ i <= ServedUpTo(k)

\* the ids of the vehicles queued in some lane
QueuedIds == UNION {{lanes[d][j].id : j \in 1..Len(lanes[d])} : d \in Dirs}

\* C4 (Spec): a queued vehicle has no depart_time; a departed vehicle carries
\* the end time t + duration of the decision step that served it, which is
\* later than every micro-time of that step, keeps it for the rest of the
\* run, and is in no lane any more.
C4_DepartStamp ==
    /\ \A d \in Dirs : \A j \in 1..Len(lanes[d]) : lanes[d][j].depart_time = None
    /\ Len(departed) = ServedUpTo(Len(hist))
    /\ \A i \in 1..Len(departed) :
          /\ departed[i].depart_time = <<hist[StepOf(i)].t + hist[StepOf(i)].dur>>
          /\ departed[i].id \notin QueuedIds
    /\ call.op = "serve" =>
          \A i \in 1..Len(left) :
              /\ left[i].depart_time = <<call.time>>
              /\ call.time = t
              /\ tt <= call.time

C4_Witness ==
    /\ pc = "loop"
    /\ Len(departed) = 2
    /\ departed[1].depart_time = <<1>>
    /\ departed[2].arrival_time = 3
    /\ departed[2].depart_time = <<4>>

RECURSIVE RewardSum(_)
\* the sum of the rewards of the first k decision steps of the run
RewardSum(k) == IF k = 0 THEN 0 ELSE hist[k].reward + RewardSum(k - 1)

QueueTotal == Len(lanes["N"]) + Len(lanes["S"]) + Len(lanes["E"]) + Len(lanes["W"])

\* C5 (Spec): the reward of a decision step is 10 times the number of
\* vehicles departed in it minus 2 times the sum of the four queue lengths
\* after service; total_r is the sum of the rewards of the steps so far, and
\* the reward run returns is that sum over all its steps.
C5_Reward ==
    /\ call.op = "serve" =>
          hist[Len(hist)].reward = 10 * Len(left) - 2 * QueueTotal
    /\ pc # "idle" => total_r = RewardSum(Len(hist))
    /\ call.op = "return" => result.reward = RewardSum(Len(hist))

C5_Witness ==
    /\ call.op = "return"
    /\ Len(hist) = 2
    /\ hist[1].reward = 10
    /\ hist[2].reward = -2
    /\ result.reward = 8

RECURSIVE WaitTotal(_)
\* the sum of depart_time - arrival_time over the first i departed vehicles
WaitTotal(i) ==
    IF i = 0 THEN 0
    ELSE departed[i].depart_time[1] - departed[i].arrival_time + WaitTotal(i - 1)

\* C6 (Spec): run returns departed = the number of vehicles departed in the
\* run and avg_wait = the mean of their waits, which is 0 when none departed.
C6_AvgWait ==
    call.op = "return" =>
        /\ result.departed = Len(departed)
        /\ departed = <<>> => result.avg_wait = Zero
        /\ departed # <<>> =>
              /\ result.avg_wait[2] > 0
              /\ result.avg_wait[1] * Len(departed)
                     = WaitTotal(Len(departed)) * result.avg_wait[2]

C6_Witness ==
    /\ call.op = "return"
    /\ result.departed = 2
    /\ result.avg_wait = <<3, 2>>

SensorNS == Len(lanes["N"]) + Len(lanes["S"])

SensorEW == Len(lanes["E"]) + Len(lanes["W"])

\* C7 as stated (SpecSensor): with the default bins a combined queue length
\* of 0 or 3 is discretized to 0, 4 to 1, 20 to 4 and 21 to 5.
C7_AsStated ==
    call.op = "read" =>
        /\ SensorNS = 0 => s[1] = 0
        /\ SensorNS = 3 => s[1] = 0
        /\ SensorNS = 4 => s[1] = 1
        /\ SensorNS = 20 => s[1] = 4
        /\ SensorNS = 21 => s[1] = 5
        /\ SensorEW = 0 => s[2] = 0
        /\ SensorEW = 3 => s[2] = 0
        /\ SensorEW = 4 => s[2] = 1
        /\ SensorEW = 20 => s[2] = 4
        /\ SensorEW = 21 => s[2] = 5

\* C7 amended (SpecSensor): with the default bins a combined queue length of
\* 0 is discretized to 0, 3 to 1, 4 to 2, 20 to 4 and 21 to 5.
C7_DiscValues ==
    call.op = "read" =>
        /\ SensorNS = 0 => s[1] = 0
        /\ SensorNS = 3 => s[1] = 1
        /\ SensorNS = 4 => s[1] = 2
        /\ SensorNS = 20 => s[1] = 4
        /\ SensorNS = 21 => s[1] = 5
        /\ SensorEW = 0 => s[2] = 0
        /\ SensorEW = 3 => s[2] = 1
        /\ SensorEW = 4 => s[2] = 2
        /\ SensorEW = 20 => s[2] = 4
        /\ SensorEW = 21 => s[2] = 5

C7_Witness ==
    /\ call.op = "read"
    /\ SensorNS = 3
    /\ s[1] = 1
    /\ SensorEW = 4
    /\ s[2] = 2

\* the index (from 0) of the first bin edge >= v, len(edges) when there is none
FirstEdge(v) ==
    IF \E i \in 1..Len(bins) : bins[i] >= v
    THEN (CHOOSE i \in 1..Len(bins) :
              bins[i] >= v /\ \A j \in 1..(i - 1) : bins[j] < v) - 1
    ELSE Len(bins)

Imbalance(ns, ew) == IF ns - ew > 3 THEN 1 ELSE IF ew - ns > 3 THEN -1 ELSE 0

\* C8 (SpecSensor): read returns (discretize(ns), discretize(ew), imbalance)
\* of the current queue lengths and changes no queue; discretize is
\* non-decreasing and the components stay in 0..len(edges) and {-1, 0, 1}.
C8_SensorRead ==
    call.op = "read" =>
        /\ s = <<FirstEdge(SensorNS), FirstEdge(SensorEW),
                 Imbalance(SensorNS, SensorEW)>>
        /\ lanes = pre
        /\ s[1] \in 0..Len(bins) /\ s[2] \in 0..Len(bins) /\ s[3] \in {-1, 0, 1}
        /\ \A v \in 0..SensorNS : disc(v) <= s[1]
        /\ \A v \in 0..SensorEW : disc(v) <= s[2]

C8_Witness ==
    /\ call.op = "read"
    /\ SensorNS = 21
    /\ SensorEW = 17
    /\ s = <<5, 4, 1>>

AllKeys == QStates \X ActionIdx

\* the entries whose value after the last call differs from the one before
ChangedKeys ==
    {k \in AllKeys : QVal(q, k[1], k[2]) # QVal(qpre, k[1], k[2])}

\* C9 as stated (SpecQ): update(s, a, r, s') changes the value of exactly one
\* entry, the one for (s, a), and of no other.
C9_AsStated ==
    call.op = "update" => ChangedKeys = {<<call.s, call.a>>}

\* C9 amended (SpecQ): update(s, a, r, s') assigns the entry (s, a), which
\* may receive the value it already had, and leaves the value of every other
\* entry as it was, an entry never stored counting as 0: at most one entry
\* changes.
C9_UpdateFrame ==
    call.op = "update" =>
        /\ DOMAIN q \subseteq AllKeys
        /\ <<call.s, call.a>> \in DOMAIN q
        /\ ChangedKeys \subseteq {<<call.s, call.a>>}

C9_Witness ==
    /\ call.op = "update"
    /\ call.ns = call.s
    /\ QVal(q, call.s, call.a) # QVal(qpre, call.s, call.a)
    /\ \E k \in AllKeys \ {<<call.s, call.a>>} :
          k[1] = call.s /\ QVal(qpre, k[1], k[2]) # Zero

\* the greatest of the values the old table holds for state st
OldBest(st) ==
    CHOOSE m \in {QVal(qpre, st, i) : i \in ActionIdx} :
        \A i \in ActionIdx : ~RatLess(m, QVal(qpre, st, i))

\* C10 (SpecQ): after update(s, a, r, s') the entry (s, a) is
\* old + alpha * (r + gamma * max over a' of old(s', a') - old), every value
\* on the right being the one before the call.
C10_UpdateValue ==
    call.op = "update" =>
        LET old == QVal(qpre, call.s, call.a)
            target == RatAdd(FromInt(call.r), RatMul(<<9, 10>>, OldBest(call.ns)))
        IN  q[<<call.s, call.a>>]
                = RatAdd(old, RatMul(<<1, 10>>, RatSub(target, old)))

C10_Witness ==
    /\ call.op = "update"
    /\ call.ns = call.s
    /\ QVal(qpre, call.s, call.a) # Zero
    /\ OldBest(call.ns) = QVal(qpre, call.s, call.a)
    /\ q[<<call.s, call.a>>] # QVal(qpre, call.s, call.a)

\* C11 (SpecQ): a choose that does not explore, as every choose does when
\* epsilon = 0, returns the lowest index among those whose value for the state
\* is greatest, an entry never stored counting as 0, hence index 0 when no
\* value of the state differs from 0; the index returned is always an index
\* of the action list.
C11_ChooseGreedy ==
    call.op = "choose" =>
        /\ a \in ActionIdx
        /\ eps = 0 => ~call.explore
        /\ ~call.explore =>
              /\ \A i \in ActionIdx :
                    ~RatLess(QVal(qpre, call.s, a), QVal(qpre, call.s, i))
              /\ \A i \in 0..(a - 1) :
                    RatLess(QVal(qpre, call.s, i), QVal(qpre, call.s, a))
              /\ (\A i \in ActionIdx : QVal(qpre, call.s, i) = Zero) => a = 0

C11_Witness ==
    /\ call.op = "choose"
    /\ ~call.explore
    /\ eps = 0
    /\ a = 1
    /\ RatLess(QVal(qpre, call.s, 0), Zero)
    /\ QVal(qpre, call.s, 2) = QVal(qpre, call.s, 1)

\* C12 as stated (SpecQ): choose performs no mutation: the Q-table, its set
\* of stored entries and their values, is the same after the call as before.
C12_AsStated ==
    call.op = "choose" => q = qpre

\* the entries stored in the table now or at the entry of the run
RunKeys == (DOMAIN q) \cup (DOMAIN qrun)

C13_StepInv ==
    /\ ~train => \A k \in RunKeys : QVal(q, k[1], k[2]) = QVal(qrun, k[1], k[2])
    /\ \A k \in 1..Len(hist) : hist[k].updated = train
    /\ call.op = "choose" => s = read(lanes) /\ tt = t
    /\ call.op = "serve" =>
          LET h == hist[Len(hist)]
          IN  /\ h.s = s /\ h.a = a
              /\ h.ns = read(lanes)
              /\ h.reward = 10 * Len(left) - 2 * SumFn(queue_lengths(lanes), Dirs)
              /\ train => q = update(qpre, h.s, h.a, h.reward, h.ns)
              /\ ~train => q = qpre

\* C13 (Spec): update is called in a decision step exactly when the run
\* trains.  In a run with train = FALSE every entry of the Q-table keeps the
\* value it had when the run was entered; in a run with train = TRUE each
\* step makes the one call update(s, a, reward, ns), s being the state read
\* when the action was chosen, before any arrival of the step and kept
\* through the arrivals, a the chosen index, reward the step's reward and ns
\* the state read after service.
C13_TrainUpdate ==
    /\ []C13_StepInv
    /\ [][pc = "arrive" => (s' = s /\ a' = a)]_vars

C13_Witness ==
    /\ call.op = "serve"
    /\ ~train
    /\ DOMAIN q # DOMAIN qrun
    /\ \E k \in DOMAIN qrun : qrun[k] # Zero

RECURSIVE SumDur(_)
SumDur(h) == IF h = <<>> THEN 0 ELSE Head(h).dur + SumDur(Tail(h))

MaxDuration ==
    CHOOSE d \in {actions[i][2] : i \in 1..Len(actions)} :
        \A i \in 1..Len(actions) : actions[i][2] <= d

\* C14 (Spec): every decision step of a run starts at a time below max_t,
\* the first at 0 and each next one where the one before ended, and lasts
\* exactly the duration of the action chosen for it, so t is the sum of the
\* durations of the steps made; the run returns only with t >= max_t, after
\* at least one step, and t - max_t is then less than the duration of the
\* last step and at most the largest duration of the action list.
C14_StepBoundary ==
    /\ t = SumDur(hist)
    /\ \A k \in 1..Len(hist) :
          /\ hist[k].t < max_t
          /\ hist[k].t = SumDur(SubSeq(hist, 1, k - 1))
          /\ hist[k].dur = actions[hist[k].a + 1][2]
    /\ pc = "arrive" => t < max_t /\ tt <= t + actions[a + 1][2]
    /\ call.op = "return" =>
          /\ t >= max_t
          /\ Len(hist) >= 1
          /\ t - max_t < hist[Len(hist)].dur
          /\ t - max_t <= MaxDuration

C14_Witness ==
    /\ call.op = "return"
    /\ max_t = 2
    /\ Len(hist) = 2
    /\ t = 4

\* what is left of a run, ordered lexicographically: the time left before
\* max_t, the position in the decision step, the time left in the arrival
\* loop
Measure ==
    IF pc = "idle" THEN <<0, 0, 0>>
    ELSE IF pc = "loop" THEN <<IF t < max_t THEN max_t - t ELSE 0, 2, 0>>
    ELSE <<max_t - t, 1, IF tt < t + actions[a + 1][2]
                          THEN t + actions[a + 1][2] - tt ELSE 0>>

LexLess(x, y) ==
    \/ x[1] < y[1]
    \/ x[1] = y[1] /\ x[2] < y[2]
    \/ x[1] = y[1] /\ x[2] = y[2] /\ x[3] < y[3]

\* C15 (Spec): every step taken inside a run (a choice, one pass of the
\* arrival loop, the service with the bookkeeping that follows it, the
\* return) strictly decreases a measure made of three natural numbers
\* ordered lexicographically, so neither the arrival loop nor the decision
\* loop can run forever whatever the actions chosen and the arrivals
\* generated; the measure reaches its least value only by the return, which
\* happens at t >= max_t.
C15_Terminates ==
    /\ [](Measure \in Nat \X Nat \X Nat)
    /\ [](pc # "idle" => dt > 0 /\ \A i \in 1..Len(actions) : actions[i][2] > 0)
    /\ [][pc # "idle" => LexLess(Measure', Measure)]_vars
    /\ [][(pc # "idle" /\ pc' = "idle") => (call'.op = "return" /\ t' >= max_t')]_vars

C15_Witness ==
    /\ pc = "idle"
    /\ call.op = "return"
    /\ t >= max_t
    /\ Len(hist) = 2
    /\ nextId >= 2

\* C16 (SpecReset): after reset the four lanes N, S, E, W exist and are
\* empty, whatever they held, and the service rate is the one of the
\* intersection replaced; the Q-table, the action list and epsilon of the
\* controller are as before the call.
C16_ResetFrame ==
    [][call'.op = "reset" =>
          /\ DOMAIN lanes' = {"N", "S", "E", "W"}
          /\ \A d \in DOMAIN lanes' : lanes'[d] = <<>>
          /\ service_rate' = service_rate
          /\ q' = q
          /\ actions' = actions
          /\ eps' = eps]_vars

C16_Witness ==
    /\ call.op = "reset"
    /\ \A d \in Dirs : pre[d] # <<>> /\ lanes[d] = <<>>
    /\ service_rate = <<4, 5>>
    /\ q = LearnedQ

\* the duration of the action chosen for the current step
Dur == actions[a + 1][2]

\* lanes' is lanes with vehicles appended, each arrived at the given time
\* and not departed
ArrivedAt(time) ==
    \A d \in Dirs :
        /\ Len(lanes'[d]) >= Len(lanes[d])
        /\ SubSeq(lanes'[d], 1, Len(lanes[d])) = lanes[d]
        /\ \A j \in (Len(lanes[d]) + 1)..Len(lanes'[d]) :
              /\ lanes'[d][j].arrival_time = time
              /\ lanes'[d][j].depart_time = None

\* C17 (Spec): a decision step starting at t with duration d sets tt to t;
\* each pass of the arrival loop happens at a micro-time tt with
\* t <= tt < t + d, generates the arrivals of that micro-time, appends each
\* vehicle to its lane with arrival_time = tt and moves tt on by dt, so every
\* micro-time t, t + dt, ... below t + d gets one pass; serve is called only
\* when tt has reached t + d, after all of them; no vehicle is created
\* anywhere else.
C17_Arrivals ==
    /\ [][(pc = "loop" /\ pc' = "arrive") => tt' = t]_vars
    /\ [][(pc = "arrive" /\ pc' = "arrive") =>
              /\ call' = [op |-> "generate", time |-> tt]
              /\ t <= tt /\ tt < t + Dur
              /\ (tt - t) % dt = 0
              /\ tt' = tt + dt
              /\ ArrivedAt(tt)]_vars
    /\ [][(pc = "arrive" /\ pc' = "loop") =>
              /\ call'.op = "serve"
              /\ tt = t + Dur
              /\ call'.time = t + Dur]_vars
    /\ [][nextId' # nextId => (pc = "arrive" /\ pc' = "arrive")]_vars

C17_Witness ==
    /\ call.op = "serve"
    /\ call.dur = 3
    /\ \E i \in 1..Len(left) :
          /\ left[i].arrival_time = hist[Len(hist)].t + 2
          /\ left[i].depart_time = <<hist[Len(hist)].t + 3>>

\* C18 as stated (Spec): for any sequence of run and reset calls, a run on
\* queues left by an earlier run included, every vehicle departed during a
\* run has depart_time >= arrival_time and the avg_wait returned is never
\* negative.
C18_AsStated ==
    /\ \A i \in 1..Len(departed) :
          departed[i].depart_time[1] >= departed[i].arrival_time
    /\ call.op = "return" => result.avg_wait[1] >= 0

\* the ids of the vehicles departed in the current run
DepartedIds == {departed[i].id : i \in 1..Len(departed)}

TotalOf(ls) == Len(ls["N"]) + Len(ls["S"]) + Len(ls["E"]) + Len(ls["W"])

C19_StateInv ==
    /\ Cardinality(QueuedIds \cup DepartedIds) = TotalOf(lanes) + Len(departed)
    /\ QueuedIds \cup DepartedIds \subseteq 0..(nextId - 1)
    /\ call.op = "serve" => TotalOf(lanes) = TotalOf(pre) - Len(left)
    /\ (pc # "idle" \/ call.op = "return") =>
          entry.queued + (nextId - entry.nextId) = Len(departed) + TotalOf(lanes)
    /\ (call.op = "return" /\ entry.queued = 0) =>
          nextId - entry.nextId = result.departed + TotalOf(lanes)

\* C19 (Spec): every step inside a run leaves the sum of the four queue
\* lengths equal to what it was plus the vehicles created in it minus the
\* vehicles departed in it, so the same holds over a decision step and over
\* the run: queued at entry + generated = departed + queued, and generated =
\* departed_count + queued at the return of a run entered on empty queues.
\* The vehicles queued in the four lanes and the departed ones are pairwise
\* different objects: none is in two lanes, queued and departed, or departed
\* twice.
C19_Conservation ==
    /\ []C19_StateInv
    /\ [][pc # "idle" =>
              TotalOf(lanes') = TotalOf(lanes) + (nextId' - nextId)
                                    - (Len(departed') - Len(departed))]_vars

C19_Witness ==
    /\ call.op = "return"
    /\ entry.queued = 0
    /\ nextId - entry.nextId = 2
    /\ result.departed = 1
    /\ TotalOf(lanes) = 1

\* the directions the claim calls active
ActiveOf(phase) == IF phase = "NS" THEN {"N", "S"} ELSE {"E", "W"}

\* C20 (SpecServe): serve(phase, duration, time) leaves the two inactive
\* lanes as they were, removes from each active lane only vehicles at its
\* head, returns only vehicles that were in an active lane, gives no
\* depart_time to a vehicle still queued, and leaves service_rate as it was.
C20_ServeFrame ==
    [][call'.op = "serve" =>
          /\ \A d \in Dirs \ ActiveOf(call'.phase) : lanes'[d] = lanes[d]
          /\ \A d \in ActiveOf(call'.phase) :
                /\ Len(lanes'[d]) <= Len(lanes[d])
                /\ lanes'[d] = SubSeq(lanes[d], Len(lanes[d]) - Len(lanes'[d]) + 1,
                                      Len(lanes[d]))
          /\ \A i \in 1..Len(left') :
                \E d \in ActiveOf(call'.phase) : \E j \in 1..Len(lanes[d]) :
                    lanes[d][j].id = left'[i].id
          /\ \A d \in Dirs : \A j \in 1..Len(lanes'[d]) :
                lanes'[d][j].depart_time = None
          /\ service_rate' = service_rate]_vars

C20_Witness ==
    /\ call.op = "serve"
    /\ call.phase = "EW"
    /\ Len(left) >= 2
    /\ lanes["N"] = pre["N"] /\ Len(lanes["N"]) = MaxQueue
    /\ lanes["S"] = pre["S"] /\ Len(lanes["S"]) >= 1
    /\ Len(lanes["E"]) >= 1
    /\ service_rate = <<4, 5>>

=============================================================================
